---- MODULE Spec2Model ----
(***************************************************************************)
(* Job lifecycle of the Content X AI Studio backends: voice generation     *)
(* (voice_backend.py), content generation (real_content_backend.py),       *)
(* publishing and scheduled posts (publishing_backend.py), the in-memory   *)
(* job tables of simple_database_backend.py and the HTTP status handlers   *)
(* of simple_main.py.  Every coroutine is cut at its await points: one     *)
(* action is the code that runs between two suspensions of the event loop. *)
(***************************************************************************)
EXTENDS Integers, Sequences, FiniteSets

\* ------------------------------------------------------------------ bounds
MaxJobs == 2            \* ids uuid4 can hand out in one run
MaxTime == 1            \* ticks of the wall clock
MaxDbWrites == 3        \* calls of the job-table writers of the database backend
MaxOrders == 2          \* orders create_payment_intent can open in one run
MaxSubs == 3            \* subscriptions that can be created in one run
MaxSessions == 3        \* sessions the auth backend can open in one run
MaxCalls == 3           \* calls of _generate_voice_cached in one run

JobIds == 1..MaxJobs
Times == 0..MaxTime

\* ---------------------------------------------------------------- constants
None == "None"          \* Python None / an absent dict key, for string fields
NoTime == -1            \* Python None / an absent dict key, for timestamps
NoId == 0               \* no job id in a response
NoProgress == -1        \* progress: int = None / a record without a progress key
NaiveTime == -2         \* a schedule_time in ISO format that names no UTC offset

\* voice_backend.py:23-43: the provider registry; every provider is enabled
ProviderNames == {"elevenlabs", "azure", "google", "speechelo"}
providers == [p \in ProviderNames |-> [enabled |-> TRUE]]

\* publishing_backend.py:50-76: the platforms that have optimisation rules
platform_optimizations == {"instagram", "facebook", "linkedin", "twitter"}

\* inputs the callers may pass
ProviderInputs == {"elevenlabs", "speechelo", "unknown_provider"}
PlatformInputs == {<<>>, <<"twitter", "linkedin">>, <<"myspace">>}
ContentTypes == {"script", "audio", "video"}
\* NoTime: a string fromisoformat rejects; NaiveTime: one it reads as a naive datetime
ScheduleInputs == Times \cup {NoTime, NaiveTime}

VARIABLES
    now,              \* the wall clock (datetime.now, time.time)
    uuid_issued,      \* the ids uuid.uuid4() has produced so far
    voice_jobs,       \* VoiceBackend.voice_jobs
    voice_task,       \* the generate_voice coroutines: where each one is
    generation_jobs,  \* RealContentBackend.generation_jobs
    gen_task,         \* the _generate_real_content_async tasks
    publishing_jobs,  \* PublishingBackend.publishing_jobs
    scheduled_posts,  \* PublishingBackend.scheduled_posts
    pub_task,         \* the _publish_to_platforms / _execute_scheduled_post tasks
    user_voices,      \* VoiceBackend.user_voices
    content_jobs,     \* SimpleDatabaseBackend.content_jobs
    db_writes,        \* number of database-backend writes so far (bounded)
    returned,         \* what the accepted submissions returned, in order
    cancel_seen,      \* post id -> platforms published when its cancel was accepted
    last,             \* the result of the most recent call
    db_voice_jobs,    \* SimpleDatabaseBackend.voice_jobs
    payments,         \* RazorpayBackend.payments
    subscriptions,    \* RazorpayBackend.subscriptions
    users,            \* AuthBackend.users
    sessions,         \* AuthBackend.sessions
    oauth_states,     \* AuthBackend.oauth_states
    registered,       \* the registrations create_user has answered with success
    voice_cache,      \* RealContentBackend.voice_cache
    cache_calls       \* the _generate_voice_cached calls: where each one is

payVars == <<payments, subscriptions>>
authVars == <<users, sessions, oauth_states, registered>>
cacheVars == <<voice_cache, cache_calls>>
extVars == <<db_voice_jobs, payVars, authVars, cacheVars>>

vars == <<now, uuid_issued, voice_jobs, voice_task, generation_jobs, gen_task,
          publishing_jobs, scheduled_posts, pub_task, user_voices, content_jobs, extVars,
          db_writes, returned, cancel_seen, last>>

\* ------------------------------------------------------------------ helpers
EmptyDict == [k \in {} |-> None]

\* d[k] = v on a Python dict: insert or replace
Put(d, k, v) == [x \in (DOMAIN d) \cup {k} |-> IF x = k THEN v ELSE d[x]]

Response(op, arg, status, id, code) ==
    [op |-> op, arg |-> arg, status |-> status, job_id |-> id, http |-> code]

\* uuid.uuid4(): a 128-bit random id, taken as one that was never produced
\* before.  uuid4_timestamp is the id scheme of the model ids of this code
\* (f"voice_{user_id}_{int(time.time())}"): the same id within one second.
uuid4_timestamp == now + 1

uuid4 == CHOOSE i \in JobIds \ uuid_issued : \A k \in JobIds \ uuid_issued : i <= k

CanIssue == uuid_issued # JobIds

\* ------------------------------------------------- the wall clock advances
Tick ==
    /\ now < MaxTime
    /\ now' = now + 1
    /\ UNCHANGED <<uuid_issued, voice_jobs, voice_task, generation_jobs, gen_task,
                   publishing_jobs, scheduled_posts, pub_task, user_voices,
                   content_jobs, extVars, db_writes, returned, cancel_seen, last>>

\* =================================================== real_content_backend.py
ModelInputs == {None, "model"}      \* voice_model_id / avatar_model_id: Optional[str]

\* a runner whose video step writes a progress below the one of the voice step
ProgressAfter_regress(step) ==
    CASE step = "step1" -> 20
      [] step = "step2" -> 60
      [] step = "step3" -> 50
      [] step = "step4" -> 100

\* the progress value the runner writes after each step (lines 269, 275, 286, 299)
ProgressAfter(step) ==
    CASE step = "step1" -> 20
      [] step = "step2" -> 60
      [] step = "step3" -> 85
      [] step = "step4" -> 100

\* line 273: if voice_model_id and content_type in ["video", "audio"]
TakesVoiceStage(t) == t.voice_model_id # None /\ t.content_type \in {"video", "audio"}
\* line 284: if avatar_model_id and content_type == "video"
TakesVideoStage(t) == t.avatar_model_id # None /\ t.content_type = "video"

\* the await the task reaches next, once step `done` is behind it
NextStep(t, done) ==
    IF done = "step1" /\ TakesVoiceStage(t) THEN "step2"
    ELSE IF done \in {"step1", "step2"} /\ TakesVideoStage(t) THEN "step3"
    ELSE "step4"

\* lines 234-241: the record generate_content stores
NewGenerationJob(content_type) ==
    [status |-> "processing", progress |-> 0, content_type |-> content_type,
     current_step |-> None, voice_file |-> None, video_file |-> None,
     completed_at |-> NoTime, error |-> None]

\* a generate_content that answers a payload it has seen before with the id
\* of the job that already exists for it
generate_content_dedup(content_type, voice_model_id, avatar_model_id) ==
    /\ CanIssue
    /\ LET same == {j \in DOMAIN gen_task :
                      /\ gen_task[j].content_type = content_type
                      /\ gen_task[j].voice_model_id = voice_model_id
                      /\ gen_task[j].avatar_model_id = avatar_model_id}
           job_id == IF same # {} THEN CHOOSE j \in same : TRUE ELSE uuid4
       IN
       /\ uuid_issued' = uuid_issued \cup {uuid4}
       /\ IF same # {}
          THEN UNCHANGED <<generation_jobs, gen_task>>
          ELSE /\ generation_jobs' = Put(generation_jobs, job_id, NewGenerationJob(content_type))
               /\ gen_task' = Put(gen_task, job_id,
                                  [pc |-> "step1", content_type |-> content_type,
                                   voice_model_id |-> voice_model_id,
                                   avatar_model_id |-> avatar_model_id])
       /\ returned' = Append(returned, [op |-> "generate_content", id |-> job_id])
       /\ last' = Response("generate_content", NoId, "processing", job_id, 0)
    /\ UNCHANGED <<now, voice_jobs, voice_task, publishing_jobs, scheduled_posts,
                   pub_task, user_voices, content_jobs, extVars, db_writes, cancel_seen>>

\* generate_content (228-258): store the record, start the background task,
\* return the job id.  The task starts suspended in the sleep of step 1.
generate_content(content_type, voice_model_id, avatar_model_id) ==
    /\ CanIssue
    /\ LET job_id == uuid4 IN
       /\ uuid_issued' = uuid_issued \cup {job_id}
       /\ generation_jobs' = Put(generation_jobs, job_id, NewGenerationJob(content_type))
       /\ gen_task' = Put(gen_task, job_id,
                          [pc |-> "step1", content_type |-> content_type,
                           voice_model_id |-> voice_model_id,
                           avatar_model_id |-> avatar_model_id])
       /\ returned' = Append(returned, [op |-> "generate_content", id |-> job_id])
       /\ last' = Response("generate_content", NoId, "processing", job_id, 0)
    /\ UNCHANGED <<now, voice_jobs, voice_task, publishing_jobs, scheduled_posts,
                   pub_task, user_voices, content_jobs, extVars, db_writes, cancel_seen>>

GenFrame == UNCHANGED <<now, uuid_issued, voice_jobs, voice_task, publishing_jobs,
                        scheduled_posts, pub_task, user_voices, content_jobs, extVars,
                        db_writes, returned, cancel_seen, last>>

\* an except branch that logs the error and leaves the job record alone
GenFail_log_only(jobs, j, msg) == jobs

\* an except branch that marks every job that is still processing as failed
GenFail_all(jobs, j, msg) ==
    [k \in DOMAIN jobs |->
        IF k = j \/ jobs[k].status = "processing"
        THEN [jobs[k] EXCEPT !.status = "failed", !.error = msg,
                             !.current_step = "Generation failed"]
        ELSE jobs[k]]

\* lines 306-310: the except branch of the runner, on the job table `jobs`
GenFail(jobs, j, msg) ==
    [jobs EXCEPT ![j].status = "failed", ![j].error = msg,
                 ![j].current_step = "Generation failed"]

\* Step 1 (267-270): the sleep is over; progress 20
Gen_Step1(j) ==
    /\ j \in DOMAIN gen_task /\ gen_task[j].pc = "step1"
    /\ generation_jobs' = [generation_jobs EXCEPT
            ![j].progress = ProgressAfter("step1"),
            ![j].current_step = "Processing script"]
    /\ gen_task' = [gen_task EXCEPT ![j].pc = NextStep(gen_task[j], "step1")]
    /\ GenFrame

\* Step 2 (272-281): the sleep is over; progress 60, then _create_real_voice
\* (312-328) writes the voice file and either returns its name or raises
Gen_Step2(j, ok) ==
    /\ j \in DOMAIN gen_task /\ gen_task[j].pc = "step2"
    /\ LET at60 == [generation_jobs EXCEPT
                       ![j].progress = ProgressAfter("step2"),
                       ![j].current_step = "Generating voice"]
       IN IF ok
          THEN /\ generation_jobs' = [at60 EXCEPT ![j].voice_file = "generated_voice.mp3"]
               /\ gen_task' = [gen_task EXCEPT ![j].pc = NextStep(gen_task[j], "step2")]
          ELSE /\ generation_jobs' = GenFail(at60, j, "Voice generation failed")
               /\ gen_task' = [gen_task EXCEPT ![j].pc = "raised"]
    /\ GenFrame

\* Step 3 (283-295): the sleep is over; progress 85, then
\* _create_real_instagram_reel (330-345) returns the file name or raises
Gen_Step3(j, ok) ==
    /\ j \in DOMAIN gen_task /\ gen_task[j].pc = "step3"
    /\ LET at85 == [generation_jobs EXCEPT
                       ![j].progress = ProgressAfter("step3"),
                       ![j].current_step = "Rendering video"]
       IN IF ok
          THEN /\ generation_jobs' = [at85 EXCEPT ![j].video_file = "instagram_reel.mp4"]
               /\ gen_task' = [gen_task EXCEPT ![j].pc = NextStep(gen_task[j], "step3")]
          ELSE /\ generation_jobs' = GenFail(at85, j, "Video generation failed")
               /\ gen_task' = [gen_task EXCEPT ![j].pc = "raised"]
    /\ GenFrame

\* Step 4 (297-304): the sleep is over; progress 100, completed, completed_at
Gen_Step4(j) ==
    /\ j \in DOMAIN gen_task /\ gen_task[j].pc = "step4"
    /\ generation_jobs' = [generation_jobs EXCEPT
            ![j].progress = ProgressAfter("step4"),
            ![j].status = "completed",
            ![j].completed_at = now,
            ![j].current_step = "Content generation completed successfully"]
    /\ gen_task' = [gen_task EXCEPT ![j].pc = "done"]
    /\ GenFrame

\* get_generation_status (413-426): None for an unknown id, else a copy of the
\* record; the model keeps the status of the copy
get_generation_status(job_id) ==
    IF job_id \notin DOMAIN generation_jobs THEN None
    ELSE generation_jobs[job_id].status

\* ========================================================= voice_backend.py
UserInputs == {None, "user"}        \* user_id: str = None

\* lines 105-115: the record generate_voice stores
NewVoiceJob(provider, user_id) ==
    [status |-> "processing", progress |-> 0, provider |-> provider,
     user_id |-> user_id, audio_url |-> None, completed_at |-> NoTime,
     failed_at |-> NoTime, error |-> None]

\* lines 120-129 with 174-264: the provider call.  Each _generate_*_voice
\* sleeps, builds a URL from its arguments and returns success; with a str
\* text nothing in it raises, so its except branch is never taken.
ProviderResult(provider) ==
    IF provider \in {"elevenlabs", "azure", "google", "speechelo"}
    THEN [status |-> "success", audio_url |-> provider, error |-> None]
    ELSE [status |-> "error", audio_url |-> None, error |-> "Unknown provider"]

VoiceFrame == UNCHANGED <<now, generation_jobs, gen_task, publishing_jobs,
                          scheduled_posts, pub_task, content_jobs, extVars, db_writes,
                          cancel_seen>>

\* a generate_voice that stores the job before it has validated the provider
generate_voice_unvalidated(provider, user_id) ==
    /\ CanIssue
    /\ LET job_id == uuid4 IN
       /\ uuid_issued' = uuid_issued \cup {job_id}
       /\ voice_jobs' = Put(voice_jobs, job_id, NewVoiceJob(provider, user_id))
       /\ IF provider \notin DOMAIN providers
          THEN /\ last' = Response("generate_voice", NoId, "error", NoId, 0)
               /\ UNCHANGED voice_task
          ELSE /\ voice_task' = Put(voice_task, job_id, [pc |-> "await_provider"])
               /\ UNCHANGED last
    /\ UNCHANGED <<user_voices, returned>>
    /\ VoiceFrame

\* generate_voice up to its await (85-127): draw the id, validate the
\* provider, store the record, call the provider
generate_voice(provider, user_id) ==
    /\ CanIssue
    /\ LET job_id == uuid4 IN
       /\ uuid_issued' = uuid_issued \cup {job_id}
       /\ IF provider \notin DOMAIN providers
          THEN /\ last' = Response("generate_voice", NoId, "error", NoId, 0)
               /\ UNCHANGED <<voice_jobs, voice_task>>
          ELSE IF ~providers[provider].enabled
          THEN /\ last' = Response("generate_voice", NoId, "error", NoId, 0)
               /\ UNCHANGED <<voice_jobs, voice_task>>
          ELSE /\ voice_jobs' = Put(voice_jobs, job_id, NewVoiceJob(provider, user_id))
               /\ voice_task' = Put(voice_task, job_id, [pc |-> "await_provider"])
               /\ UNCHANGED last
    /\ UNCHANGED <<user_voices, returned>>
    /\ VoiceFrame

\* an update that marks the job completed without the result fields
VoiceJobAfter_status_only(job, result, t) ==
    IF result.status = "success"
    THEN [job EXCEPT !.status = "completed", !.completed_at = t]
    ELSE [job EXCEPT !.status = "failed", !.error = result.error, !.failed_at = t]

\* lines 131-153: the job update once the provider call is back
VoiceJobAfter(job, result, t) ==
    IF result.status = "success"
    THEN [job EXCEPT !.status = "completed", !.progress = 100,
                     !.audio_url = result.audio_url, !.completed_at = t]
    ELSE [job EXCEPT !.status = "failed", !.error = result.error, !.failed_at = t]

\* generate_voice after its await (131-165): update the job, remember the
\* voice of the user, return the job id and the status
generate_voice_return(j) ==
    /\ j \in DOMAIN voice_task /\ voice_task[j].pc = "await_provider"
    /\ LET job == voice_jobs[j]
           result == ProviderResult(job.provider)
           after == VoiceJobAfter(job, result, now)
       IN /\ voice_jobs' = [voice_jobs EXCEPT ![j] = after]
          /\ user_voices' =
                IF result.status = "success" /\ job.user_id # None
                THEN Append(user_voices, result.audio_url)
                ELSE user_voices
          /\ returned' = Append(returned, [op |-> "generate_voice", id |-> j])
          /\ last' = Response("generate_voice", NoId, after.status, j, 0)
    /\ voice_task' = [voice_task EXCEPT ![j].pc = "returned"]
    /\ UNCHANGED uuid_issued
    /\ VoiceFrame

\* get_voice_status (266-288): the status of the job, "error" for an unknown id
get_voice_status(job_id) ==
    IF job_id \notin DOMAIN voice_jobs THEN "error"
    ELSE voice_jobs[job_id].status

\* ==================================================== publishing_backend.py
Range(seq) == {seq[i] : i \in DOMAIN seq}

\* _optimize_content_for_platforms (191-222): platform_optimizations[platform]
\* raises KeyError for a platform that has no rules
OptimizeRaises(platforms) == \E p \in Range(platforms) : p \notin platform_optimizations

\* _publish_to_platform (285-318): sleeps, builds the result; nothing in it raises
PlatformResult(platform) == "success"

\* lines 164-172 and 120-129: the records publish_immediately and schedule_post
\* store.  A key the code does not set is None / NoTime / the empty dict.
NewPublishingJob(platforms) ==
    [status |-> "publishing", platforms |-> platforms, schedule_time |-> NoTime,
     results |-> EmptyDict, completed_at |-> NoTime, error |-> None,
     progress |-> NoProgress]

NewScheduledPost(platforms, schedule_time) ==
    [status |-> "scheduled", platforms |-> platforms, schedule_time |-> schedule_time,
     results |-> EmptyDict, completed_at |-> NoTime, error |-> None,
     progress |-> NoProgress]

NewPubTask(kind) == [kind |-> kind, pc |-> "start", idx |-> 0, results |-> EmptyDict]

OutsidePublishing == UNCHANGED <<now, voice_jobs, voice_task, generation_jobs,
                                 gen_task, user_voices, content_jobs, extVars, db_writes>>

PubFrame == OutsidePublishing /\ UNCHANGED cancel_seen

\* publish_immediately (154-189)
publish_immediately(platforms) ==
    /\ CanIssue
    /\ LET post_id == uuid4 IN
       /\ uuid_issued' = uuid_issued \cup {post_id}
       /\ IF OptimizeRaises(platforms)
          THEN /\ last' = Response("publish_immediately", NoId, "error", NoId, 0)
               /\ UNCHANGED <<publishing_jobs, pub_task, returned>>
          ELSE /\ publishing_jobs' = Put(publishing_jobs, post_id, NewPublishingJob(platforms))
               /\ pub_task' = Put(pub_task, post_id, NewPubTask("publish"))
               /\ returned' = Append(returned, [op |-> "publish_immediately", id |-> post_id])
               /\ last' = Response("publish_immediately", NoId, "publishing", post_id, 0)
    /\ UNCHANGED scheduled_posts
    /\ PubFrame

\* schedule_post (109-152); schedule_time NoTime stands for a string that
\* datetime.fromisoformat rejects
schedule_post(platforms, schedule_time) ==
    /\ CanIssue
    /\ LET post_id == uuid4 IN
       /\ uuid_issued' = uuid_issued \cup {post_id}
       /\ IF schedule_time = NoTime \/ OptimizeRaises(platforms)
          THEN /\ last' = Response("schedule_post", NoId, "error", NoId, 0)
               /\ UNCHANGED <<scheduled_posts, pub_task, returned>>
          ELSE /\ scheduled_posts' = Put(scheduled_posts, post_id,
                                         NewScheduledPost(platforms, schedule_time))
               /\ pub_task' = Put(pub_task, post_id, NewPubTask("scheduled"))
               /\ returned' = Append(returned, [op |-> "schedule_post", id |-> post_id])
               /\ last' = Response("schedule_post", NoId, "success", post_id, 0)
    /\ UNCHANGED publishing_jobs
    /\ PubFrame

\* line 248 and 322: publishing_jobs.get(post_id) or scheduled_posts.get(post_id)
JobTableOf(post_id) ==
    IF post_id \in DOMAIN publishing_jobs THEN "publishing_jobs"
    ELSE IF post_id \in DOMAIN scheduled_posts THEN "scheduled_posts"
    ELSE None

LookupJob(post_id) ==
    IF JobTableOf(post_id) = "publishing_jobs" THEN publishing_jobs[post_id]
    ELSE scheduled_posts[post_id]

\* an end of _publish_to_platforms that stores the results and leaves the
\* status as it is
Finalized_results_only(job, results, t) == [job EXCEPT !.results = results]

\* lines 272-275: the update that ends _publish_to_platforms
Finalized(job, results, t) ==
    [job EXCEPT !.status = "completed", !.results = results, !.completed_at = t]

\* the job dict the task holds is the one in the table: write it back there
WriteJob(post_id, job) ==
    IF JobTableOf(post_id) = "publishing_jobs"
    THEN /\ publishing_jobs' = [publishing_jobs EXCEPT ![post_id] = job]
         /\ UNCHANGED scheduled_posts
    ELSE /\ scheduled_posts' = [scheduled_posts EXCEPT ![post_id] = job]
         /\ UNCHANGED publishing_jobs

\* a _publish_to_platforms that starts the calls for all platforms at once
\* and goes on with the last of them
EnterPublish_gather(post_id) ==
    LET job == LookupJob(post_id) IN
    IF Len(job.platforms) = 0
    THEN /\ WriteJob(post_id, Finalized(job, EmptyDict, now))
         /\ pub_task' = [pub_task EXCEPT ![post_id].pc = "done"]
    ELSE /\ pub_task' = [pub_task EXCEPT ![post_id].pc = "publishing",
                                         ![post_id].idx = Len(job.platforms)]
         /\ UNCHANGED <<publishing_jobs, scheduled_posts>>

\* _publish_to_platforms from its entry to its first await (247-259): look the
\* job up; with no platform the loop is empty and the job is completed at once
EnterPublish(post_id) ==
    LET job == LookupJob(post_id) IN
    IF Len(job.platforms) = 0
    THEN /\ WriteJob(post_id, Finalized(job, EmptyDict, now))
         /\ pub_task' = [pub_task EXCEPT ![post_id].pc = "done"]
    ELSE /\ pub_task' = [pub_task EXCEPT ![post_id].pc = "publishing", ![post_id].idx = 1]
         /\ UNCHANGED <<publishing_jobs, scheduled_posts>>

PubTaskFrame == /\ UNCHANGED <<uuid_issued, returned, last>>
                /\ PubFrame

\* the task publish_immediately created runs for the first time (line 175)
Pub_Start(j) ==
    /\ j \in DOMAIN pub_task
    /\ pub_task[j].kind = "publish" /\ pub_task[j].pc = "start"
    /\ EnterPublish(j)
    /\ PubTaskFrame

\* lines 239-243: the except branch of _execute_scheduled_post
ExecFail(posts, j, msg) == [posts EXCEPT ![j].status = "failed", ![j].error = msg]

\* _execute_scheduled_post (224-243) runs for the first time: sleep until the
\* schedule time when it lies ahead, else publish right away.  Line 232
\* compares the schedule time with an aware datetime.now(timezone.utc): for a
\* naive schedule time the comparison raises TypeError and the except branch
\* marks the post failed.
Exec_Start(j) ==
    /\ j \in DOMAIN pub_task
    /\ pub_task[j].kind = "scheduled" /\ pub_task[j].pc = "start"
    /\ IF scheduled_posts[j].schedule_time = NaiveTime
       THEN /\ scheduled_posts' = ExecFail(scheduled_posts, j,
                    "can't compare offset-naive and offset-aware datetimes")
            /\ pub_task' = [pub_task EXCEPT ![j].pc = "raised"]
            /\ UNCHANGED publishing_jobs
       ELSE IF scheduled_posts[j].schedule_time > now
       THEN /\ pub_task' = [pub_task EXCEPT ![j].pc = "waiting"]
            /\ UNCHANGED <<publishing_jobs, scheduled_posts>>
       ELSE EnterPublish(j)
    /\ PubTaskFrame

\* a sleep that may return before the time it was asked to wait is over
Exec_Wake_early(j) ==
    /\ j \in DOMAIN pub_task /\ pub_task[j].pc = "waiting"
    /\ EnterPublish(j)
    /\ PubTaskFrame

\* line 234-237: asyncio.sleep(wait_seconds) is over, not before the schedule time
Exec_Wake(j) ==
    /\ j \in DOMAIN pub_task /\ pub_task[j].pc = "waiting"
    /\ now >= scheduled_posts[j].schedule_time
    /\ EnterPublish(j)
    /\ PubTaskFrame

\* lines 259-263: _publish_to_platform is back; keep its result, sleep
Pub_Platform(j) ==
    /\ j \in DOMAIN pub_task /\ pub_task[j].pc = "publishing"
    /\ LET platform == LookupJob(j).platforms[pub_task[j].idx] IN
       pub_task' = [pub_task EXCEPT
            ![j].results = Put(@, platform, PlatformResult(platform)),
            ![j].pc = "gap"]
    /\ UNCHANGED <<publishing_jobs, scheduled_posts>>
    /\ PubTaskFrame

\* lines 263, 256, 272-277: the sleep between platforms is over; go on with the
\* next platform, or after the last one mark the job completed
Pub_Gap(j) ==
    /\ j \in DOMAIN pub_task /\ pub_task[j].pc = "gap"
    /\ LET job == LookupJob(j) IN
       IF pub_task[j].idx < Len(job.platforms)
       THEN /\ pub_task' = [pub_task EXCEPT ![j].pc = "publishing", ![j].idx = @ + 1]
            /\ UNCHANGED <<publishing_jobs, scheduled_posts>>
       ELSE /\ WriteJob(j, Finalized(job, pub_task[j].results, now))
            /\ pub_task' = [pub_task EXCEPT ![j].pc = "done"]
    /\ PubTaskFrame

\* cancel_scheduled_post (395-407)
\* cancel_seen notes, for the first cancel accepted while the task of the post
\* is unfinished, how many platforms the task had published by then.
cancel_scheduled_post(post_id) ==
    /\ IF post_id \in DOMAIN scheduled_posts
       THEN /\ scheduled_posts' = [scheduled_posts EXCEPT ![post_id].status = "cancelled"]
            /\ last' = Response("cancel_scheduled_post", post_id, "success", NoId, 0)
            /\ cancel_seen' =
                  IF pub_task[post_id].pc \notin {"done", "raised"}
                     /\ post_id \notin DOMAIN cancel_seen
                  THEN Put(cancel_seen, post_id, Cardinality(DOMAIN pub_task[post_id].results))
                  ELSE cancel_seen
       ELSE /\ UNCHANGED <<scheduled_posts, cancel_seen>>
            /\ last' = Response("cancel_scheduled_post", post_id, "error", NoId, 0)
    /\ UNCHANGED <<uuid_issued, publishing_jobs, pub_task, returned>>
    /\ OutsidePublishing

\* get_publishing_status (320-333): None for an unknown id, else a copy of the
\* record; the model keeps the status of the copy
get_publishing_status(post_id) ==
    IF JobTableOf(post_id) = None THEN None ELSE LookupJob(post_id).status

\* =============================================== simple_database_backend.py
DbJobIds == {1, 2}                          \* job_id: str, chosen by the caller
DbStatusInputs == {"processing", "completed", "failed"}
DbProgressInputs == {NoProgress, 50}

\* lines 202-213: the record create_content_job stores
NewContentJob ==
    [status |-> "processing", progress |-> 0, result_url |-> None,
     completed_at |-> NoTime, error_message |-> None]

DbFrame == UNCHANGED <<now, uuid_issued, voice_jobs, voice_task, generation_jobs,
                       gen_task, publishing_jobs, scheduled_posts, pub_task,
                       user_voices, returned, cancel_seen,
                       payVars, authVars, cacheVars>>

\* create_content_job (198-227)
create_content_job(job_id) ==
    /\ db_writes < MaxDbWrites
    /\ db_writes' = db_writes + 1
    /\ content_jobs' = Put(content_jobs, job_id, NewContentJob)
    /\ last' = Response("create_content_job", job_id, "success", job_id, 0)
    /\ UNCHANGED db_voice_jobs
    /\ DbFrame

NoDuration == -1                            \* duration: int = None
DbDurationInputs == {NoDuration, 0, 7}      \* duration: int, in seconds

\* lines 140-151: the record create_voice_job stores; it has no duration key
NewDbVoiceJob ==
    [status |-> "processing", duration |-> NoDuration, completed_at |-> NoTime,
     error_message |-> None]

\* create_voice_job (136-165)
create_voice_job(job_id) ==
    /\ db_writes < MaxDbWrites
    /\ db_writes' = db_writes + 1
    /\ db_voice_jobs' = Put(db_voice_jobs, job_id, NewDbVoiceJob)
    /\ last' = Response("create_voice_job", job_id, "success", job_id, 0)
    /\ UNCHANGED content_jobs
    /\ DbFrame

\* lines 173-183: what update_voice_job does to the record it finds.  Line 176
\* is `if duration:`, which is false for None and for 0.
VoiceJobUpdated(job, status, duration, t) ==
    LET s1 == [job EXCEPT !.status = status]
        s2 == IF duration # NoDuration /\ duration # 0
              THEN [s1 EXCEPT !.duration = duration] ELSE s1
    IN IF status \in {"completed", "failed"} THEN [s2 EXCEPT !.completed_at = t] ELSE s2

\* update_voice_job (167-188), without audio_url, file_size and error_message
update_voice_job(job_id, status, duration) ==
    /\ db_writes < MaxDbWrites
    /\ db_writes' = db_writes + 1
    /\ IF job_id \in DOMAIN db_voice_jobs
       THEN /\ db_voice_jobs' = [db_voice_jobs EXCEPT
                    ![job_id] = VoiceJobUpdated(@, status, duration, now)]
            /\ last' = Response("update_voice_job", job_id, "True", NoId, 0)
       ELSE /\ UNCHANGED db_voice_jobs
            /\ last' = Response("update_voice_job", job_id, "False", NoId, 0)
    /\ UNCHANGED content_jobs
    /\ DbFrame

\* lines 234-242: what update_content_job does to the record it finds
ContentJobUpdated(job, status, progress, t) ==
    LET s1 == [job EXCEPT !.status = status]
        s2 == IF progress # NoProgress THEN [s1 EXCEPT !.progress = progress] ELSE s1
    IN IF status \in {"completed", "failed"} THEN [s2 EXCEPT !.completed_at = t] ELSE s2

\* update_content_job (229-247), without result_url and error_message
update_content_job(job_id, status, progress) ==
    /\ db_writes < MaxDbWrites
    /\ db_writes' = db_writes + 1
    /\ IF job_id \in DOMAIN content_jobs
       THEN /\ content_jobs' = [content_jobs EXCEPT
                    ![job_id] = ContentJobUpdated(@, status, progress, now)]
            /\ last' = Response("update_content_job", job_id, "True", NoId, 0)
       ELSE /\ UNCHANGED content_jobs
            /\ last' = Response("update_content_job", job_id, "False", NoId, 0)
    /\ UNCHANGED db_voice_jobs
    /\ DbFrame

\* ======================================================= razorpay_backend.py
\* lines 85-149: the plans on offer
plans == {"script-starter", "script-professional", "script-enterprise",
          "content-creator", "content-professional", "content-enterprise",
          "publishing-basic", "publishing-pro", "full-stack"}

PlanInputs == {"full-stack", "no-such-plan"}
OrderIds == 1..MaxOrders            \* f"order_{uuid.uuid4().hex[:14]}"

PayFrame == UNCHANGED <<now, uuid_issued, voice_jobs, voice_task, generation_jobs,
                        gen_task, publishing_jobs, scheduled_posts, pub_task,
                        user_voices, content_jobs, db_writes, returned, cancel_seen,
                        db_voice_jobs, authVars, cacheVars>>

\* create_payment_intent (187-247): client_ok is whether client.order.create
\* returned (the mock client always does, the real one may raise)
create_payment_intent(plan_id, client_ok) ==
    /\ Cardinality(DOMAIN payments) < MaxOrders
    /\ IF plan_id \notin plans \/ ~client_ok
       THEN /\ last' = Response("create_payment_intent", NoId, "False", NoId, 0)
            /\ UNCHANGED payments
       ELSE LET order_id == Cardinality(DOMAIN payments) + 1 IN
            /\ payments' = Put(payments, order_id,
                               [plan_id |-> plan_id, status |-> None, paid_at |-> NoTime])
            /\ last' = Response("create_payment_intent", NoId, "True", order_id, 0)
    /\ UNCHANGED subscriptions
    /\ PayFrame

\* create_subscription (291-312): a new subscription for the order, under a
\* new id f"sub_{uuid.uuid4().hex[:14]}"
create_subscription(subs, order_id) ==
    Put(subs, Cardinality(DOMAIN subs) + 1, [order_id |-> order_id, status |-> "active"])

\* verify_payment (249-289): signature_ok is whether verify_payment_signature
\* returned (the mock client always does, the real one raises on a bad signature)
verify_payment(order_id, signature_ok) ==
    /\ Cardinality(DOMAIN subscriptions) < MaxSubs
    /\ IF ~signature_ok
       THEN /\ last' = Response("verify_payment", order_id, "False", NoId, 0)
            /\ UNCHANGED <<payments, subscriptions>>
       ELSE IF order_id \in DOMAIN payments
       THEN /\ payments' = [payments EXCEPT ![order_id].status = "paid",
                                            ![order_id].paid_at = now]
            /\ subscriptions' = create_subscription(subscriptions, order_id)
            /\ last' = Response("verify_payment", order_id, "True",
                                Cardinality(DOMAIN subscriptions) + 1, 0)
       ELSE /\ last' = Response("verify_payment", order_id, "False", NoId, 0)
            /\ UNCHANGED <<payments, subscriptions>>
    /\ PayFrame

\* =========================================================== auth_backend.py
AuthFrame == UNCHANGED <<now, voice_jobs, voice_task, generation_jobs,
                         gen_task, publishing_jobs, scheduled_posts, pub_task,
                         user_voices, content_jobs, db_writes, returned, cancel_seen,
                         db_voice_jobs, payVars, cacheVars>>

\* the dict an auth call returns: "status" and, for an error, "error"
AuthResponse(op, arg, status, error) ==
    [op |-> op, arg |-> arg, status |-> status, error |-> error]

Email(local, at, host) == [local |-> local, at |-> at, host |-> host]
EmailInputs == {Email("alice", NoTime, "example.com"), Email("bob", NoTime, "example.com")}
NameInputs == {"", "Ann"}
PasswordInputs == {"pw1", "pw2"}

\* hashlib.sha256(password.encode()).hexdigest(): distinct passwords have
\* distinct digests
password_hash(password) == <<"sha256", password>>

\* f"google_{int(time.time())}", f"linkedin_{...}", f"email_{...}"
UserId(provider) == <<provider, now>>

\* the session a successful call stores under str(uuid.uuid4())
WithSession(user_id) ==
    Put(sessions, Cardinality(DOMAIN sessions) + 1,
        [user_id |-> user_id, created_at |-> now])

CanOpenSession == Cardinality(DOMAIN sessions) < MaxSessions

\* generate_oauth_state (381-388)
generate_oauth_state ==
    /\ CanIssue
    /\ oauth_states' = oauth_states \cup {uuid4}
    /\ uuid_issued' = uuid_issued \cup {uuid4}
    /\ last' = AuthResponse("generate_oauth_state", uuid4, "success", None)
    /\ UNCHANGED <<users, sessions, registered>>
    /\ AuthFrame

\* del self.oauth_states[state] (lines 174, 235)
ConsumeState_keep(states, state) == states

ConsumeState(states, state) == states \ {state}

\* lines 142-158, 203-219: the user record a callback stores
OAuthUser(provider, host) ==
    [email |-> Email("user", now, host), name |-> "User", provider |-> provider,
     password_hash |-> <<None, None>>, last_login |-> now]

\* handle_google_callback (131-190)
handle_google_callback(state) ==
    /\ CanOpenSession
    /\ IF state \notin oauth_states
       THEN /\ last' = AuthResponse("handle_google_callback", state, "error",
                                    "Invalid state parameter")
            /\ UNCHANGED <<users, sessions, oauth_states>>
       ELSE /\ users' = Put(users, UserId("google"), OAuthUser("google", "gmail.com"))
            /\ sessions' = WithSession(UserId("google"))
            /\ oauth_states' = ConsumeState(oauth_states, state)
            /\ last' = AuthResponse("handle_google_callback", state, "success", None)
    /\ UNCHANGED <<uuid_issued, registered>>
    /\ AuthFrame

\* handle_linkedin_callback (192-251)
handle_linkedin_callback(state) ==
    /\ CanOpenSession
    /\ IF state \notin oauth_states
       THEN /\ last' = AuthResponse("handle_linkedin_callback", state, "error",
                                    "Invalid state parameter")
            /\ UNCHANGED <<users, sessions, oauth_states>>
       ELSE /\ users' = Put(users, UserId("linkedin"), OAuthUser("linkedin", "linkedin.com"))
            /\ sessions' = WithSession(UserId("linkedin"))
            /\ oauth_states' = ConsumeState(oauth_states, state)
            /\ last' = AuthResponse("handle_linkedin_callback", state, "success", None)
    /\ UNCHANGED <<uuid_issued, registered>>
    /\ AuthFrame

\* create_user (253-307); name[0] raises IndexError for an empty name, before
\* anything is stored.  registered records the accounts it answered
\* "success" for.
create_user(email, name, password) ==
    /\ CanOpenSession
    /\ IF \E id \in DOMAIN users : users[id].email = email
       THEN /\ last' = AuthResponse("create_user", email, "error", "User already exists")
            /\ UNCHANGED <<users, sessions, registered>>
       ELSE IF name = ""
       THEN /\ last' = AuthResponse("create_user", email, "error",
                                    "string index out of range")
            /\ UNCHANGED <<users, sessions, registered>>
       ELSE /\ users' = Put(users, UserId("email"),
                            [email |-> email, name |-> name, provider |-> "email",
                             password_hash |-> password_hash(password),
                             last_login |-> now])
            /\ sessions' = WithSession(UserId("email"))
            /\ registered' = registered \cup {[email |-> email, password |-> password]}
            /\ last' = AuthResponse("create_user", email, "success", None)
    /\ UNCHANGED <<uuid_issued, oauth_states>>
    /\ AuthFrame

\* lines 313-317: the stored users login_user can find for an email
EmailUsers(us, email) ==
    {id \in DOMAIN us : us[id].email = email /\ us[id].provider = "email"}

\* lines 313-330: what login_user answers
LoginOutcome(us, email, password) ==
    IF EmailUsers(us, email) = {} THEN "User not found"
    ELSE IF \E id \in EmailUsers(us, email) :
                us[id].password_hash # password_hash(password) THEN "Invalid password"
    ELSE "success"

\* login_user (309-362)
login_user(email, password) ==
    /\ CanOpenSession
    /\ IF LoginOutcome(users, email, password) # "success"
       THEN /\ last' = AuthResponse("login_user", email, "error",
                                    LoginOutcome(users, email, password))
            /\ UNCHANGED <<users, sessions>>
       ELSE LET id == CHOOSE i \in EmailUsers(users, email) : TRUE IN
            /\ users' = [users EXCEPT ![id].last_login = now]
            /\ sessions' = WithSession(id)
            /\ last' = AuthResponse("login_user", email, "success", None)
    /\ UNCHANGED <<uuid_issued, oauth_states, registered>>
    /\ AuthFrame

\* ============================== real_content_backend.py: the voice cache
CacheFrame == UNCHANGED <<now, uuid_issued, voice_jobs, voice_task, generation_jobs,
                          gen_task, publishing_jobs, scheduled_posts, pub_task,
                          user_voices, content_jobs, db_writes, returned, cancel_seen,
                          last, db_voice_jobs, payVars, authVars>>

\* script_content: two texts and None, for which .encode() raises
ScriptInputs == {"hello", "world", None}

\* hashlib.md5(script_content.encode()).hexdigest(), first eight digits
md5(script_content) ==
    IF script_content = "hello" THEN "5d41402a" ELSE "7d793037"

\* a file name: its stem and, for a name built from the clock, the second
FileName(stem, at) == [stem |-> stem, at |-> at]

\* f"video_{int(time.time())}.mp4" (line 550) names a file by the clock
VoiceFileName_timestamp(cache_key) == FileName("voice", now)

\* voice_file = f"voice_{cache_key}.mp3" (line 534)
VoiceFileName(cache_key) == FileName(cache_key, NoTime)

voice_default == FileName("default", NoTime)        \* "voice_default.mp3"

CacheCall(script_content, pc, hit, result) ==
    [script |-> script_content, pc |-> pc, hit |-> hit, result |-> result]

\* _generate_voice_cached up to its await (520-531): a script that is not a
\* string ends in the except branch (540-542), a cached key returns the
\* cached file, any other goes to sleep
generate_voice_cached(script_content) ==
    /\ Cardinality(DOMAIN cache_calls) < MaxCalls
    /\ cache_calls' = Put(cache_calls, Cardinality(DOMAIN cache_calls) + 1,
           IF script_content = None
           THEN CacheCall(script_content, "returned", FALSE, voice_default)
           ELSE IF md5(script_content) \in DOMAIN voice_cache
           THEN CacheCall(script_content, "returned", TRUE,
                          voice_cache[md5(script_content)])
           ELSE CacheCall(script_content, "sleeping", FALSE, voice_default))
    /\ UNCHANGED voice_cache
    /\ CacheFrame

\* _generate_voice_cached after its await (533-538)
generate_voice_cached_wake(c) ==
    /\ c \in DOMAIN cache_calls
    /\ cache_calls[c].pc = "sleeping"
    /\ LET cache_key == md5(cache_calls[c].script)
           voice_file == VoiceFileName(cache_key) IN
       /\ voice_cache' = Put(voice_cache, cache_key, voice_file)
       /\ cache_calls' = [cache_calls EXCEPT ![c].pc = "returned",
                                             ![c].result = voice_file]
    /\ CacheFrame

\* ======================================================== the status queries
QueryFrame == UNCHANGED <<now, uuid_issued, voice_jobs, voice_task, generation_jobs,
                          gen_task, publishing_jobs, scheduled_posts, pub_task,
                          user_voices, content_jobs, extVars, db_writes, returned,
                          cancel_seen>>

\* a caller asks VoiceBackend.get_voice_status
Query_voice_status(job_id) ==
    /\ last' = Response("get_voice_status", job_id, get_voice_status(job_id), NoId, 0)
    /\ QueryFrame

\* get_scheduled_posts (335-346): copies of the posts of the user, newest
\* schedule time first; the model keeps how many there are
get_scheduled_posts == Cardinality(DOMAIN scheduled_posts)

\* a caller asks PublishingBackend.get_scheduled_posts
Query_scheduled_posts ==
    /\ last' = Response("get_scheduled_posts", get_scheduled_posts, "list", NoId, 0)
    /\ QueryFrame

\* a status handler that forgets a job once it has reported it as finished
http_get_generation_status_pop(job_id) ==
    /\ last' = Response("http_get_generation_status", job_id,
                        get_generation_status(job_id), NoId, 200)
    /\ generation_jobs' =
          IF job_id \in DOMAIN generation_jobs
             /\ generation_jobs[job_id].status \in {"completed", "failed"}
          THEN [x \in DOMAIN generation_jobs \ {job_id} |-> generation_jobs[x]]
          ELSE generation_jobs
    /\ UNCHANGED <<now, uuid_issued, voice_jobs, voice_task, gen_task,
                   publishing_jobs, scheduled_posts, pub_task, user_voices,
                   content_jobs, extVars, db_writes, returned, cancel_seen>>

\* simple_main.py:3260-3277, GET /api/content/generation/status/{job_id}: the
\* backend's answer goes into JSONResponse(content=status), status code 200
http_get_generation_status(job_id) ==
    /\ last' = Response("http_get_generation_status", job_id,
                        get_generation_status(job_id), NoId, 200)
    /\ QueryFrame

\* simple_main.py:3397-3415, GET /api/publishing/status/{post_id}
http_get_publishing_status(post_id) ==
    /\ last' = Response("http_get_publishing_status", post_id,
                        get_publishing_status(post_id), NoId, 200)
    /\ QueryFrame

\* ============================================================ specifications
Init ==
    /\ now = 0
    /\ uuid_issued = {}
    /\ voice_jobs = EmptyDict
    /\ voice_task = EmptyDict
    /\ generation_jobs = EmptyDict
    /\ gen_task = EmptyDict
    /\ publishing_jobs = EmptyDict
    /\ scheduled_posts = EmptyDict
    /\ pub_task = EmptyDict
    /\ user_voices = <<>>
    /\ content_jobs = EmptyDict
    /\ db_writes = 0
    /\ returned = <<>>
    /\ cancel_seen = EmptyDict
    /\ last = Response("none", NoId, None, NoId, 0)
    /\ db_voice_jobs = EmptyDict
    /\ payments = EmptyDict
    /\ subscriptions = EmptyDict
    /\ users = EmptyDict
    /\ sessions = EmptyDict
    /\ oauth_states = {}
    /\ registered = {}
    /\ voice_cache = EmptyDict
    /\ cache_calls = EmptyDict

VoiceNext ==
    \/ \E p \in ProviderInputs, u \in UserInputs : generate_voice(p, u)
    \/ \E j \in JobIds : generate_voice_return(j)

ContentNext ==
    \/ \E c \in ContentTypes, v \in ModelInputs, a \in ModelInputs : generate_content(c, v, a)
    \/ \E j \in JobIds : Gen_Step1(j)
    \/ \E j \in JobIds, ok \in BOOLEAN : Gen_Step2(j, ok)
    \/ \E j \in JobIds, ok \in BOOLEAN : Gen_Step3(j, ok)
    \/ \E j \in JobIds : Gen_Step4(j)

PublishNext ==
    \/ \E ps \in PlatformInputs : publish_immediately(ps)
    \/ \E ps \in PlatformInputs, t \in ScheduleInputs : schedule_post(ps, t)
    \/ \E j \in JobIds : Pub_Start(j)
    \/ \E j \in JobIds : Exec_Start(j)
    \/ \E j \in JobIds : Exec_Wake(j)
    \/ \E j \in JobIds : Pub_Platform(j)
    \/ \E j \in JobIds : Pub_Gap(j)
    \/ \E j \in JobIds : cancel_scheduled_post(j)

DbNext ==
    \/ \E j \in DbJobIds : create_content_job(j)
    \/ \E j \in DbJobIds, s \in DbStatusInputs, p \in DbProgressInputs :
          update_content_job(j, s, p)
    \/ \E j \in DbJobIds : create_voice_job(j)
    \/ \E j \in DbJobIds, s \in DbStatusInputs, d \in DbDurationInputs :
          update_voice_job(j, s, d)

PayNext ==
    \/ \E p \in PlanInputs, ok \in BOOLEAN : create_payment_intent(p, ok)
    \/ \E o \in OrderIds, ok \in BOOLEAN : verify_payment(o, ok)

AuthNext ==
    \/ generate_oauth_state
    \/ \E s \in JobIds : handle_google_callback(s)
    \/ \E s \in JobIds : handle_linkedin_callback(s)
    \/ \E e \in EmailInputs, n \in NameInputs, p \in PasswordInputs : create_user(e, n, p)
    \/ \E e \in EmailInputs, p \in PasswordInputs : login_user(e, p)

CacheNext ==
    \/ \E s \in ScriptInputs : generate_voice_cached(s)
    \/ \E c \in 1..MaxCalls : generate_voice_cached_wake(c)

QueryNext ==
    \/ \E j \in JobIds : Query_voice_status(j)
    \/ \E j \in JobIds : http_get_generation_status(j)
    \/ \E j \in JobIds : http_get_publishing_status(j)
    \/ Query_scheduled_posts

\* the three job backends together, sharing uuid4 and the clock
Next == Tick \/ VoiceNext \/ ContentNext \/ PublishNext

Spec == Init /\ [][Next]_vars

VoiceSpec == Init /\ [][Tick \/ VoiceNext]_vars
ContentSpec == Init /\ [][Tick \/ ContentNext]_vars
PublishSpec == Init /\ [][Tick \/ PublishNext]_vars
DbSpec == Init /\ [][Tick \/ DbNext]_vars
PaySpec == Init /\ [][Tick \/ PayNext]_vars
AuthSpec == Init /\ [][Tick \/ AuthNext]_vars
CacheSpec == Init /\ [][Tick \/ CacheNext]_vars
\* the status queries next to the jobs they ask about
StatusSpec == Init /\ [][Next \/ QueryNext]_vars

\* The event loop runs every task that is ready: a sleep that is over and a
\* provider call that is back are resumed sooner or later, and the clock moves.
TaskFairness ==
    /\ WF_vars(Tick)
    /\ \A j \in JobIds :
          /\ WF_vars(generate_voice_return(j))
          /\ WF_vars(Gen_Step1(j))
          /\ WF_vars(\E ok \in BOOLEAN : Gen_Step2(j, ok))
          /\ WF_vars(\E ok \in BOOLEAN : Gen_Step3(j, ok))
          /\ WF_vars(Gen_Step4(j))
          /\ WF_vars(Pub_Start(j))
          /\ WF_vars(Exec_Start(j))
          /\ WF_vars(Exec_Wake(j))
          /\ WF_vars(Pub_Platform(j))
          /\ WF_vars(Pub_Gap(j))

FairSpec == Init /\ [][Next]_vars /\ TaskFairness

\* ==================================================================== claims
Terminal(status) == status \in {"completed", "failed", "cancelled"}

\* status and progress of job j are the same after the step as before it
SameStatus(jobs, jobsAfter, j) ==
    j \in DOMAIN jobsAfter /\ jobsAfter[j].status = jobs[j].status

\* C1: once the status of a job is completed, failed or cancelled, no step
\* changes its status or its progress (terminal states are absorbing).
C1_TerminalAbsorption ==
    [][/\ \A j \in DOMAIN voice_jobs : Terminal(voice_jobs[j].status) =>
              /\ SameStatus(voice_jobs, voice_jobs', j)
              /\ voice_jobs'[j].progress = voice_jobs[j].progress
       /\ \A j \in DOMAIN generation_jobs : Terminal(generation_jobs[j].status) =>
              /\ SameStatus(generation_jobs, generation_jobs', j)
              /\ generation_jobs'[j].progress = generation_jobs[j].progress
       /\ \A j \in DOMAIN publishing_jobs : Terminal(publishing_jobs[j].status) =>
              SameStatus(publishing_jobs, publishing_jobs', j)
       /\ \A j \in DOMAIN scheduled_posts : Terminal(scheduled_posts[j].status) =>
              SameStatus(scheduled_posts, scheduled_posts', j)]_vars

\* C2: a scheduled post whose cancel was accepted while its task was unfinished
\* ends, once the task is over, as cancelled, with completed_at set and with no
\* result of a platform published after the cancel.
C2_CancelIsFinal ==
    \A j \in DOMAIN cancel_seen : pub_task[j].pc = "done" =>
        /\ scheduled_posts[j].status = "cancelled"
        /\ scheduled_posts[j].completed_at # NoTime
        /\ Cardinality(DOMAIN scheduled_posts[j].results) <= cancel_seen[j]

\* the job table a submission of kind op writes to
TableOf(op) ==
    CASE op = "generate_voice" -> voice_jobs
      [] op = "generate_content" -> generation_jobs
      [] op = "publish_immediately" -> publishing_jobs
      [] op = "schedule_post" -> scheduled_posts

TablesHolding(id) ==
    {op \in {"generate_voice", "generate_content", "publish_immediately", "schedule_post"} :
        id \in DOMAIN TableOf(op)}

\* C3: the job ids the submissions returned are pairwise distinct, and each
\* keys one record, in the table of the submission that returned it and in no
\* other table.
C3_Uniqueness ==
    /\ \A a, b \in DOMAIN returned : a # b => returned[a].id # returned[b].id
    /\ \A a \in DOMAIN returned : TablesHolding(returned[a].id) = {returned[a].op}

C3_Witness ==
    /\ Len(returned) >= 2
    /\ returned[1].op # returned[2].op

\* C4: while a content-generation job stays in status processing, no step
\* lowers its progress.
C4_ProgressMonotone ==
    [][\A j \in DOMAIN generation_jobs :
          (/\ generation_jobs[j].status = "processing"
           /\ j \in DOMAIN generation_jobs'
           /\ generation_jobs'[j].status = "processing")
          => generation_jobs'[j].progress >= generation_jobs[j].progress]_vars

C4_Witness ==
    \E j \in DOMAIN generation_jobs :
        /\ generation_jobs[j].status = "processing"
        /\ generation_jobs[j].progress = 85
        /\ generation_jobs[j].voice_file # None

\* C5: a completed job has no error, and a failed job has no result data
\* (voice_file, video_file, audio_url, results).
C5_ExclusiveOutcome ==
    /\ \A j \in DOMAIN generation_jobs :
          /\ generation_jobs[j].status = "completed" => generation_jobs[j].error = None
          /\ generation_jobs[j].status = "failed" =>
                /\ generation_jobs[j].voice_file = None
                /\ generation_jobs[j].video_file = None
    /\ \A j \in DOMAIN voice_jobs :
          /\ voice_jobs[j].status = "completed" => voice_jobs[j].error = None
          /\ voice_jobs[j].status = "failed" => voice_jobs[j].audio_url = None
    /\ \A j \in DOMAIN publishing_jobs :
          /\ publishing_jobs[j].status = "completed" => publishing_jobs[j].error = None
          /\ publishing_jobs[j].status = "failed" => publishing_jobs[j].results = EmptyDict
    /\ \A j \in DOMAIN scheduled_posts :
          /\ scheduled_posts[j].status = "completed" => scheduled_posts[j].error = None
          /\ scheduled_posts[j].status = "failed" => scheduled_posts[j].results = EmptyDict

\* an answer that tells the caller the job does not exist
NotFoundOutcome(r) == r.status = "error" \/ r.http >= 400

\* C6: a status query for an id that has no record is answered with a
\* not-found error, never with an empty or success-shaped answer.
C6_UnknownIdNotFound ==
    /\ (last.op = "get_voice_status" /\ last.arg \notin DOMAIN voice_jobs)
          => NotFoundOutcome(last)
    /\ (last.op = "http_get_generation_status" /\ last.arg \notin DOMAIN generation_jobs)
          => NotFoundOutcome(last)
    /\ (last.op = "http_get_publishing_status" /\ JobTableOf(last.arg) = None)
          => NotFoundOutcome(last)

\* the submission of this step was refused: an error, no job id, no record
Rejected ==
    /\ last'.status = "error"
    /\ last'.job_id = NoId
    /\ returned' = returned
    /\ UNCHANGED <<voice_jobs, generation_jobs, publishing_jobs, scheduled_posts>>

UnregisteredProvider(p) == p \notin ProviderNames \/ ~providers[p].enabled
UnregisteredPlatform(ps) == \E i \in DOMAIN ps : ps[i] \notin platform_optimizations

\* C7: a submission that names a provider or a platform that is not
\* registered, or is disabled, returns an error and no job id and leaves every
\* job table as it was.
C7_BadProviderRejected ==
    [][/\ \A p \in ProviderInputs, u \in UserInputs :
              (generate_voice(p, u) /\ UnregisteredProvider(p)) => Rejected
       /\ \A ps \in PlatformInputs :
              (publish_immediately(ps) /\ UnregisteredPlatform(ps)) => Rejected
       /\ \A ps \in PlatformInputs, t \in ScheduleInputs :
              (schedule_post(ps, t) /\ UnregisteredPlatform(ps)) => Rejected]_vars

C7_Witness ==
    /\ last.op \in {"generate_voice", "publish_immediately", "schedule_post"}
    /\ last.status = "error"
    /\ last.job_id = NoId
    /\ DOMAIN voice_jobs \cup DOMAIN publishing_jobs \cup DOMAIN scheduled_posts # {}

Payload(t) == <<t.content_type, t.voice_model_id, t.avatar_model_id>>

GenerateReturns == {i \in DOMAIN returned : returned[i].op = "generate_content"}

\* C8: every generate_content call, identical payload or not, creates a record
\* of its own under an id of its own, and the status of each job follows from
\* its own task alone: completed with progress 100 once its task has run
\* through, whatever the other tasks did in between.
C8_NoDeduplication ==
    /\ Cardinality(GenerateReturns) = Cardinality(DOMAIN generation_jobs)
    /\ \A a, b \in GenerateReturns : a # b => returned[a].id # returned[b].id
    /\ \A a \in GenerateReturns : returned[a].id \in DOMAIN generation_jobs
    /\ \A j \in DOMAIN gen_task :
          /\ gen_task[j].pc = "done" =>
                /\ generation_jobs[j].status = "completed"
                /\ generation_jobs[j].progress = 100
          /\ gen_task[j].pc \notin {"done", "raised"} =>
                generation_jobs[j].status = "processing"

C8_Witness ==
    \E a, b \in DOMAIN gen_task :
        /\ a # b
        /\ Payload(gen_task[a]) = Payload(gen_task[b])
        /\ generation_jobs[a].status = "completed"
        /\ generation_jobs[b].status = "completed"

\* C9: a voice job of a registered, enabled provider is seen as pending or
\* processing while the provider call is running, and as completed with
\* progress 100 and an audio_url once generate_voice is back.
C9_VoiceLifecycle ==
    \A j \in DOMAIN voice_jobs :
        /\ voice_task[j].pc = "await_provider" =>
              get_voice_status(j) \in {"pending", "processing"}
        /\ voice_task[j].pc = "returned" =>
              /\ get_voice_status(j) = "completed"
              /\ voice_jobs[j].progress = 100
              /\ voice_jobs[j].audio_url # None

C9_Witness ==
    \E a, b \in DOMAIN voice_jobs :
        /\ voice_task[a].pc = "returned"
        /\ voice_task[b].pc = "await_provider"

\* completed_at of job j, as the step leaves it, follows the rule: set exactly
\* when the status is terminal, and kept once set
CompletedAtRule(jobs, jobsAfter, j) ==
    /\ Terminal(jobsAfter[j].status) <=> jobsAfter[j].completed_at # NoTime
    /\ (j \in DOMAIN jobs /\ jobs[j].completed_at # NoTime) =>
          jobsAfter[j].completed_at = jobs[j].completed_at

\* C10: completed_at is absent while a job is not terminal, is set when the
\* job becomes completed, failed or cancelled, and is not written again.
C10_CompletedAtOnce ==
    [][/\ \A j \in DOMAIN voice_jobs' : CompletedAtRule(voice_jobs, voice_jobs', j)
       /\ \A j \in DOMAIN generation_jobs' :
              CompletedAtRule(generation_jobs, generation_jobs', j)
       /\ \A j \in DOMAIN publishing_jobs' :
              CompletedAtRule(publishing_jobs, publishing_jobs', j)
       /\ \A j \in DOMAIN scheduled_posts' :
              CompletedAtRule(scheduled_posts, scheduled_posts', j)
       /\ \A j \in DOMAIN content_jobs' :
              CompletedAtRule(content_jobs, content_jobs', j)]_vars

\* the result data of a generation record, a voice record, a publishing record
HasGenResult(job) == job.voice_file # None \/ job.video_file # None
HasVoiceResult(job) == job.audio_url # None
HasPubResult(job) == job.results # EmptyDict

\* C11: a job record holds result data only while its status is completed,
\* and holds an error only while its status is failed; a job that is still
\* processing shows no result field.
C11_ResultOnlyWhenCompleted ==
    /\ \A j \in DOMAIN generation_jobs :
          /\ HasGenResult(generation_jobs[j]) => generation_jobs[j].status = "completed"
          /\ generation_jobs[j].error # None => generation_jobs[j].status = "failed"
    /\ \A j \in DOMAIN voice_jobs :
          /\ HasVoiceResult(voice_jobs[j]) => voice_jobs[j].status = "completed"
          /\ voice_jobs[j].error # None => voice_jobs[j].status = "failed"
    /\ \A j \in DOMAIN publishing_jobs :
          /\ HasPubResult(publishing_jobs[j]) => publishing_jobs[j].status = "completed"
          /\ publishing_jobs[j].error # None => publishing_jobs[j].status = "failed"
    /\ \A j \in DOMAIN scheduled_posts :
          /\ HasPubResult(scheduled_posts[j]) => scheduled_posts[j].status = "completed"
          /\ scheduled_posts[j].error # None => scheduled_posts[j].status = "failed"

\* this step is a status query
IsStatusQuery ==
    \/ \E j \in JobIds : Query_voice_status(j)
    \/ \E j \in JobIds : http_get_generation_status(j)
    \/ \E j \in JobIds : http_get_publishing_status(j)
    \/ Query_scheduled_posts

\* C12: a status query, for a known or an unknown id, leaves every job record
\* and every store as it was.
C12_PollingReadOnly ==
    [][IsStatusQuery =>
          UNCHANGED <<voice_jobs, generation_jobs, publishing_jobs, scheduled_posts,
                      user_voices, content_jobs, extVars, voice_task, gen_task, pub_task,
                      uuid_issued>>]_vars

\* a query for a known id and a query for an unknown id have both been
\* answered while jobs of two kinds exist
C12_Witness ==
    /\ last.op = "http_get_generation_status"
    /\ last.arg \in DOMAIN generation_jobs
    /\ last.status = "completed"
    /\ generation_jobs[last.arg].completed_at # NoTime
    /\ DOMAIN scheduled_posts # {}

\* C13: cancelling an id the status query knows, whichever submission created
\* it, answers success; cancelling an id without a record answers error and
\* changes no job table.
C13_CancelKnownIds ==
    [][\A j \in JobIds : cancel_scheduled_post(j) =>
          IF get_publishing_status(j) # None
          THEN last'.status = "success"
          ELSE /\ last'.status = "error"
               /\ UNCHANGED <<publishing_jobs, scheduled_posts>>]_vars

JobStatuses == {"pending", "processing", "completed", "failed", "cancelled"}

\* the status changes the lifecycle allows
Allowed(from, to) ==
    \/ from = to
    \/ from = "pending" /\ to = "processing"
    \/ from = "processing" /\ to \in {"completed", "failed", "cancelled"}

\* the record j of a table follows the lifecycle in this step
Lifecycle(jobs, jobsAfter, j) ==
    /\ jobsAfter[j].status \in JobStatuses
    /\ IF j \in DOMAIN jobs
       THEN Allowed(jobs[j].status, jobsAfter[j].status)
       ELSE jobsAfter[j].status = "pending"

\* C14: the status of every job is one of pending, processing, completed,
\* failed, cancelled; a new job is pending; a status changes only along
\* pending->processing, processing->completed, processing->failed,
\* processing->cancelled.
C14_Lifecycle ==
    [][/\ \A j \in DOMAIN voice_jobs' : Lifecycle(voice_jobs, voice_jobs', j)
       /\ \A j \in DOMAIN generation_jobs' : Lifecycle(generation_jobs, generation_jobs', j)
       /\ \A j \in DOMAIN publishing_jobs' : Lifecycle(publishing_jobs, publishing_jobs', j)
       /\ \A j \in DOMAIN scheduled_posts' : Lifecycle(scheduled_posts, scheduled_posts', j)]_vars

\* C15: with every ready task resumed sooner or later, every job that was
\* submitted reaches a terminal status (completed, failed or cancelled).
C15_EveryJobEnds ==
    \A j \in JobIds :
        /\ (j \in DOMAIN voice_jobs) ~>
              (j \in DOMAIN voice_jobs /\ Terminal(voice_jobs[j].status))
        /\ (j \in DOMAIN generation_jobs) ~>
              (j \in DOMAIN generation_jobs /\ Terminal(generation_jobs[j].status))
        /\ (j \in DOMAIN publishing_jobs) ~>
              (j \in DOMAIN publishing_jobs /\ Terminal(publishing_jobs[j].status))
        /\ (j \in DOMAIN scheduled_posts) ~>
              (j \in DOMAIN scheduled_posts /\ Terminal(scheduled_posts[j].status))

\* a post scheduled ahead of the clock has been published, next to a
\* generation job that has ended
C15_Witness ==
    /\ \E j \in DOMAIN scheduled_posts :
          /\ scheduled_posts[j].schedule_time > 0
          /\ scheduled_posts[j].status = "completed"
          /\ scheduled_posts[j].results # EmptyDict
    /\ \E j \in DOMAIN generation_jobs : Terminal(generation_jobs[j].status)

\* C16: once a cancel of a scheduled post has been accepted, its task starts
\* no further platform (the index of the platform it works on stays); a
\* post cancelled before its schedule time is therefore never published.
C16_NoStageAfterCancel ==
    [][\A j \in DOMAIN scheduled_posts :
          scheduled_posts[j].status = "cancelled" =>
              pub_task'[j].idx = pub_task[j].idx]_vars

\* the task of job j raises in this step
GenRaises(j) == gen_task[j].pc # "raised" /\ gen_task'[j].pc = "raised"
PubRaises(j) == pub_task[j].pc # "raised" /\ pub_task'[j].pc = "raised"

\* C17: the step in which a stage of a job fails leaves the job failed with
\* the error recorded and with no result of the run in its record, and the
\* task of a failed job runs no further stage.
C17_FailFast ==
    [][/\ \A j \in DOMAIN gen_task :
              /\ GenRaises(j) =>
                    /\ generation_jobs'[j].status = "failed"
                    /\ generation_jobs'[j].error # None
                    /\ ~HasGenResult(generation_jobs'[j])
              /\ gen_task[j].pc = "raised" => gen_task'[j] = gen_task[j]
       /\ \A j \in DOMAIN pub_task :
              /\ PubRaises(j) =>
                    /\ scheduled_posts'[j].status = "failed"
                    /\ scheduled_posts'[j].error # None
                    /\ ~HasPubResult(scheduled_posts'[j])
              /\ pub_task[j].pc = "raised" => pub_task'[j] = pub_task[j]]_vars

\* C18: an error raised inside a background task never reaches a caller (the
\* step returns nothing and answers nothing), and it leaves the record of the
\* job, in the table that holds it, failed with a non-empty error message.
C18_ErrorsBecomeState ==
    [][/\ \A j \in DOMAIN gen_task : GenRaises(j) =>
              /\ generation_jobs'[j].status = "failed"
              /\ generation_jobs'[j].error \notin {None, ""}
              /\ UNCHANGED <<last, returned>>
       /\ \A j \in DOMAIN pub_task : PubRaises(j) =>
              /\ JobTableOf(j) = "scheduled_posts"
              /\ scheduled_posts'[j].status = "failed"
              /\ scheduled_posts'[j].error \notin {None, ""}
              /\ UNCHANGED <<last, returned>>]_vars

\* a generation task and the task of a scheduled post have both raised
C18_Witness ==
    /\ \E j \in DOMAIN gen_task :
          gen_task[j].pc = "raised" /\ generation_jobs[j].status = "failed"
    /\ \E j \in DOMAIN pub_task :
          pub_task[j].pc = "raised" /\ scheduled_posts[j].status = "failed"

\* C19: every completed job, of every kind, has progress 100 and a result.
C19_CompletedIsFull ==
    /\ \A j \in DOMAIN voice_jobs : voice_jobs[j].status = "completed" =>
          voice_jobs[j].progress = 100 /\ HasVoiceResult(voice_jobs[j])
    /\ \A j \in DOMAIN generation_jobs : generation_jobs[j].status = "completed" =>
          generation_jobs[j].progress = 100 /\ HasGenResult(generation_jobs[j])
    /\ \A j \in DOMAIN publishing_jobs : publishing_jobs[j].status = "completed" =>
          publishing_jobs[j].progress = 100 /\ HasPubResult(publishing_jobs[j])
    /\ \A j \in DOMAIN scheduled_posts : scheduled_posts[j].status = "completed" =>
          scheduled_posts[j].progress = 100 /\ HasPubResult(scheduled_posts[j])

\* the place of a step of the generation task in its run
StepRank(pc) ==
    CASE pc = "step1" -> 1
      [] pc = "step2" -> 2
      [] pc = "step3" -> 3
      [] pc = "step4" -> 4
      [] pc \in {"done", "raised"} -> 5

\* C20: within one job the stages run one after the other.  A generation
\* task moves on to a later step only in the step that ends the one it was
\* in, whose progress is then in the record; a publishing task turns to the
\* next platform of its list only, with no call in flight and with the result
\* of every earlier platform kept.
C20_SequentialStages ==
    [][/\ \A j \in DOMAIN gen_task : gen_task'[j].pc # gen_task[j].pc =>
              /\ StepRank(gen_task'[j].pc) > StepRank(gen_task[j].pc)
              /\ generation_jobs'[j].progress = ProgressAfter(gen_task[j].pc)
       /\ \A j \in DOMAIN pub_task : pub_task'[j].idx # pub_task[j].idx =>
              /\ pub_task'[j].idx = pub_task[j].idx + 1
              /\ pub_task[j].pc # "publishing"
              /\ \A k \in 1..pub_task[j].idx :
                    LookupJob(j).platforms[k] \in DOMAIN pub_task[j].results]_vars

\* one task is at its second platform while another job is between two steps
C20_Witness ==
    /\ \E j \in DOMAIN pub_task : pub_task[j].idx = 2 /\ pub_task[j].pc = "publishing"
    /\ \E j \in DOMAIN gen_task : gen_task[j].pc \in {"step2", "step3"}

\* this step is a step of the runner of job j
RunnerStep(j) ==
    \/ generate_voice_return(j)
    \/ Gen_Step1(j)
    \/ \E ok \in BOOLEAN : Gen_Step2(j, ok)
    \/ \E ok \in BOOLEAN : Gen_Step3(j, ok)
    \/ Gen_Step4(j)
    \/ Pub_Start(j) \/ Exec_Start(j) \/ Exec_Wake(j)
    \/ Pub_Platform(j) \/ Pub_Gap(j)

\* the record and the task of job k are the same after the step, in table jobs
Untouched(jobs, jobsAfter, k) ==
    k \in DOMAIN jobs => (k \in DOMAIN jobsAfter /\ jobsAfter[k] = jobs[k])

\* C21: a step of the runner of one job changes the record of no other job,
\* in any interleaving, and the step that ends a run leaves the job with the
\* status and progress of a run of its own: completed with progress 100
\* after the last step of a generation, completed after the last platform.
C21_JobsIndependent ==
    [][\A j \in JobIds : RunnerStep(j) =>
          /\ \A k \in JobIds \ {j} :
                /\ Untouched(voice_jobs, voice_jobs', k)
                /\ Untouched(generation_jobs, generation_jobs', k)
                /\ Untouched(publishing_jobs, publishing_jobs', k)
                /\ Untouched(scheduled_posts, scheduled_posts', k)
                /\ Untouched(gen_task, gen_task', k)
                /\ Untouched(pub_task, pub_task', k)
          /\ (j \in DOMAIN gen_task /\ gen_task'[j].pc = "done") =>
                /\ generation_jobs'[j].status = "completed"
                /\ generation_jobs'[j].progress = 100
          /\ (j \in DOMAIN pub_task /\ pub_task'[j].pc = "done") =>
                IF j \in DOMAIN publishing_jobs
                THEN publishing_jobs'[j].status = "completed"
                ELSE scheduled_posts'[j].status = "completed"]_vars

\* the job submitted second has completed while the first is still running
C21_Witness ==
    /\ 1 \in DOMAIN generation_jobs /\ 2 \in DOMAIN generation_jobs
    /\ generation_jobs[2].status = "completed"
    /\ generation_jobs[1].status = "processing"
    /\ generation_jobs[1].progress = 60

\* the task of job j ends its run in this step
PubTaskEnds(j) == pub_task[j].pc # "done" /\ pub_task'[j].pc = "done"

\* record j of the publishing table jobs had no platform to publish to and
\* its run ends in this step as the claim says
ZeroStageEnd(jobs, jobsAfter, j) ==
    (j \in DOMAIN jobs /\ Len(jobs[j].platforms) = 0) =>
        /\ jobsAfter[j].status # "failed"
        /\ PubTaskEnds(j) =>
              /\ jobsAfter[j].status = "completed"
              /\ jobsAfter[j].progress = 100
              /\ jobsAfter[j].results = EmptyDict

\* C22: a publishing job with an empty platform list is never marked failed,
\* and the step that ends its run leaves it completed with progress 100 and
\* an empty result.
C22_ZeroStagePipeline ==
    [][\A j \in DOMAIN pub_task :
          /\ ZeroStageEnd(publishing_jobs, publishing_jobs', j)
          /\ ZeroStageEnd(scheduled_posts, scheduled_posts', j)]_vars

\* Python round() of the fraction a / b, b > 0: to the nearest integer, a tie
\* to the even one
Round(a, b) ==
    LET q == a \div b
        r == a % b
    IN IF 2 * r < b THEN q
       ELSE IF 2 * r > b THEN q + 1
       ELSE IF q % 2 = 0 THEN q ELSE q + 1

\* the stages the run of task t executes, in order
StagesOf(t) ==
    <<"step1">> \o (IF TakesVoiceStage(t) THEN <<"step2">> ELSE <<>>)
                \o (IF TakesVideoStage(t) THEN <<"step3">> ELSE <<>>)
                \o <<"step4">>

\* the 0-based index of stage step in the run of task t
StageIndex(t, step) ==
    (CHOOSE i \in DOMAIN StagesOf(t) : StagesOf(t)[i] = step) - 1

\* C23: when stage i (0-based) of a generation job with total_stages stages
\* has finished, the progress of the job is round(100 * (i+1) / total_stages).
C23_ProgressFormula ==
    [][\A j \in DOMAIN gen_task :
          (gen_task'[j].pc # gen_task[j].pc /\ gen_task'[j].pc # "raised") =>
              generation_jobs'[j].progress =
                  Round(100 * (StageIndex(gen_task[j], gen_task[j].pc) + 1),
                        Len(StagesOf(gen_task[j])))]_vars

\* every record of the table but the one of job_id is as it was, and the
\* table has the same ids
OnlyRecord(jobs, jobsAfter, job_id) ==
    /\ DOMAIN jobsAfter = DOMAIN jobs
    /\ \A k \in DOMAIN jobs \ {job_id} : jobsAfter[k] = jobs[k]

\* C24: an update for an id without a record reports failure and changes
\* nothing; an update for an id with a record reports success, writes every
\* value the caller gave to that record and changes no other record.
C24_UpdateUnknownId ==
    [][/\ \A j \in DbJobIds, s \in DbStatusInputs, p \in DbProgressInputs :
              update_content_job(j, s, p) =>
                 /\ UNCHANGED db_voice_jobs
                 /\ IF j \notin DOMAIN content_jobs
                    THEN last'.status = "False" /\ UNCHANGED content_jobs
                    ELSE /\ last'.status = "True"
                         /\ OnlyRecord(content_jobs, content_jobs', j)
                         /\ content_jobs'[j].status = s
                         /\ p # NoProgress => content_jobs'[j].progress = p
       /\ \A j \in DbJobIds, s \in DbStatusInputs, d \in DbDurationInputs :
              update_voice_job(j, s, d) =>
                 /\ UNCHANGED content_jobs
                 /\ IF j \notin DOMAIN db_voice_jobs
                    THEN last'.status = "False" /\ UNCHANGED db_voice_jobs
                    ELSE /\ last'.status = "True"
                         /\ OnlyRecord(db_voice_jobs, db_voice_jobs', j)
                         /\ db_voice_jobs'[j].status = s
                         /\ d # NoDuration => db_voice_jobs'[j].duration = d]_vars

\* C25: creating a job under an id that has a record already answers with an
\* error and leaves the record, its status and its progress, as it was.
C25_CreateNeverReplaces ==
    [][/\ \A j \in DbJobIds :
              (create_content_job(j) /\ j \in DOMAIN content_jobs) =>
                  last'.status = "error" /\ UNCHANGED content_jobs
       /\ \A j \in DbJobIds :
              (create_voice_job(j) /\ j \in DOMAIN db_voice_jobs) =>
                  last'.status = "error" /\ UNCHANGED db_voice_jobs]_vars

\* the task of post j has called _publish_to_platform or has ended its run
Published(j) == pub_task[j].pc \in {"publishing", "gap", "done"}

\* C26: a post created by schedule_post is not published to any platform
\* before its schedule time: whenever its task has started on a platform, or
\* has finished, the clock is at or past the schedule time of the post.
C26_NotBeforeSchedule ==
    \A j \in DOMAIN scheduled_posts :
        Published(j) =>
            /\ scheduled_posts[j].schedule_time \in Times
            /\ scheduled_posts[j].schedule_time <= now

\* a post scheduled ahead of the clock has been published to a platform
C26_Witness ==
    \E j \in DOMAIN scheduled_posts :
        /\ scheduled_posts[j].schedule_time = MaxTime
        /\ pub_task[j].results # EmptyDict

\* the subscriptions that refer to order o
SubscriptionsOf(subs, o) == {s \in DOMAIN subs : subs[s].order_id = o}

\* C27: after any sequence of verify_payment calls each order has at most
\* one subscription and every subscription refers to an order whose payment
\* is paid; a verify_payment for an order without a record creates no
\* subscription and changes no payment.
C27_OneSubscriptionPerOrder ==
    [][/\ \A o \in OrderIds : Cardinality(SubscriptionsOf(subscriptions', o)) <= 1
       /\ \A s \in DOMAIN subscriptions' :
              /\ subscriptions'[s].order_id \in DOMAIN payments'
              /\ payments'[subscriptions'[s].order_id].status = "paid"
       /\ \A o \in OrderIds, ok \in BOOLEAN :
              (verify_payment(o, ok) /\ o \notin DOMAIN payments) =>
                  UNCHANGED <<payments, subscriptions>>]_vars

\* a step of one of the two OAuth callbacks for the state s
CallbackStep(s) == handle_google_callback(s) \/ handle_linkedin_callback(s)

\* C28: an OAuth state is single-use: a callback succeeds only with a state
\* that generate_oauth_state issued and that is not yet consumed, a
\* successful callback removes the state, and a callback with a state that
\* is not stored is rejected with "Invalid state parameter" and creates no
\* user and no session.
C28_OAuthStateSingleUse ==
    [][\A s \in JobIds : CallbackStep(s) =>
          /\ last'.status = "success" =>
                 s \in uuid_issued /\ s \in oauth_states /\ s \notin oauth_states'
          /\ s \notin oauth_states =>
                 /\ last'.status = "error"
                 /\ last'.error = "Invalid state parameter"
                 /\ UNCHANGED <<users, sessions>>
          /\ \A t \in oauth_states \ {s} : t \in oauth_states']_vars

\* a second callback with a state that was issued and consumed has just
\* been rejected
C28_Witness ==
    /\ last.op \in {"handle_google_callback", "handle_linkedin_callback"}
    /\ last.status = "error"
    /\ last.arg \in uuid_issued \ oauth_states
    /\ users # EmptyDict

\* C29: a successful create_user never replaces an existing user record,
\* and after any sequence of successful registrations every registered
\* user is still stored and login_user with that user's email and password
\* succeeds.
C29_RegisteredCanLogin ==
    [][/\ \A e \in EmailInputs, n \in NameInputs, p \in PasswordInputs :
              (create_user(e, n, p) /\ last'.status = "success") =>
                  \A id \in DOMAIN users : users'[id].email = users[id].email
       /\ \A r \in registered' :
              LoginOutcome(users', r.email, r.password) = "success"]_vars

\* the calls of _generate_voice_cached that have returned
ReturnedCalls(calls) == {c \in DOMAIN calls : calls[c].pc = "returned"}

\* C30: the voice cache is stable: all calls that have returned for the
\* same script content, one after the other or concurrently, returned the
\* same file, and an entry of the cache is never changed or removed.
C30_VoiceCacheStable ==
    [][/\ \A c, d \in ReturnedCalls(cache_calls') :
              cache_calls'[c].script = cache_calls'[d].script =>
                  cache_calls'[c].result = cache_calls'[d].result
       /\ \A k \in DOMAIN voice_cache :
              k \in DOMAIN voice_cache' /\ voice_cache'[k] = voice_cache[k]]_vars

\* after the clock has advanced: two calls for one script that both missed
\* the cache and stored the file, and a third that found it there
C30_Witness ==
    /\ now > 0
    /\ \E c, d, e \in ReturnedCalls(cache_calls) :
          /\ c # d
          /\ cache_calls[c].script = cache_calls[d].script
          /\ cache_calls[e].script = cache_calls[c].script
          /\ cache_calls[c].script # None
          /\ ~cache_calls[c].hit /\ ~cache_calls[d].hit /\ cache_calls[e].hit

====
